---------------------------- MODULE Spec2Model ----------------------------
(***************************************************************************)
(* Brand-mention checker (Express endpoint /api/check):                    *)
(*   levenshteinDistance, fuzzyMatch, findBrandMention,                    *)
(*   analyzeBrandSentiment and the request handler.                        *)
(*                                                                         *)
(* A JavaScript string is modelled as a sequence of one-character strings  *)
(* (its UTF-16 code units); offsets are 0-based as in the source.          *)
(***************************************************************************)
EXTENDS Integers, Sequences, FiniteSets, TLC

VARIABLES
    text,       \* generatedText handed to the analyzers
    brand,      \* brand argument
    prompt,     \* originalPrompt argument
    mention,    \* result of findBrandMention, NotCalled before the call
    sentiment,  \* result of analyzeBrandSentiment, NotCalled before the call
    strA, strB, strC,  \* arguments of the string-matching functions
    fuzzy,      \* results of levenshteinDistance / fuzzyMatch, or NotCalled
    configured, \* genAI && process.env.GEMINI_API_KEY
    reqs        \* the /api/check requests in flight

vars == <<text, brand, prompt, mention, sentiment, strA, strB, strC, fuzzy,
          configured, reqs>>

\* earliestWordPosition = Infinity
Infinity == -1
\* listRank = null
Null == -1

(***************************************************************************)
(* Strings                                                                 *)
(***************************************************************************)
\* the code units of a string literal
Chars(s) == [i \in 1..Len(s) |-> SubSeq(s, i, i)]

Min(x, y) == IF x <= y THEN x ELSE y
Max(x, y) == IF x >= y THEN x ELSE y
Abs(x) == IF x < 0 THEN -x ELSE x

UpperLetters == Chars("ABCDEFGHIJKLMNOPQRSTUVWXYZ")
LowerLetters == Chars("abcdefghijklmnopqrstuvwxyz")
Digits == Chars("0123456789")

\* regular-expression classes \s, \d, \w and the line terminators of ^ and $
IsSpace(ch) == ch \in {" ", "\n", "\t", "\r"}
IsLineTerminator(ch) == ch \in {"\n", "\r"}
IsDigit(ch) == \E i \in 1..10 : Digits[i] = ch
IsUpper(ch) == \E i \in 1..26 : UpperLetters[i] = ch
IsLower(ch) == \E i \in 1..26 : LowerLetters[i] = ch
IsWordChar(ch) == IsDigit(ch) \/ IsUpper(ch) \/ IsLower(ch) \/ ch = "_"

DigitValue(ch) == (CHOOSE i \in 1..10 : Digits[i] = ch) - 1

LowerChar(ch) ==
    IF IsUpper(ch) THEN LowerLetters[CHOOSE i \in 1..26 : UpperLetters[i] = ch]
    ELSE ch

\* String.prototype.toLowerCase
toLowerCase(s) == [i \in 1..Len(s) |-> LowerChar(s[i])]

\* String.prototype.substring(from, to), 0-based, to exclusive
substring(s, from, to) ==
    LET f == Max(0, Min(from, Len(s)))
        t == Max(0, Min(to, Len(s)))
    IN SubSeq(s, Min(f, t) + 1, Max(f, t))

\* whether sub occurs in s at 0-based offset i
OccursAt(s, sub, i) ==
    /\ i + Len(sub) <= Len(s)
    /\ \A k \in 1..Len(sub) : s[i + k] = sub[k]

\* String.prototype.indexOf: first offset, or -1
indexOf(s, sub) ==
    LET First(I) == IF I = {} THEN -1 ELSE CHOOSE i \in I : \A j \in I : i <= j
    IN First({i \in 0..Len(s) : OccursAt(s, sub, i)})

\* String.prototype.includes
includes(s, sub) == \E i \in 0..Len(s) : OccursAt(s, sub, i)

\* String.prototype.trim
trim(s) ==
    IF \A i \in 1..Len(s) : IsSpace(s[i]) THEN <<>>
    ELSE SubSeq(s,
            CHOOSE i \in 1..Len(s) :
                ~IsSpace(s[i]) /\ \A j \in 1..(i - 1) : IsSpace(s[j]),
            CHOOSE i \in 1..Len(s) :
                ~IsSpace(s[i]) /\ \A j \in (i + 1)..Len(s) : IsSpace(s[j]))

\* the offsets lo..hi that satisfy P, in increasing order (the range is halved
\* so that the evaluation nests only logarithmically deep)
Positions(lo, hi, P(_)) ==
    LET RECURSIVE Range(_, _)
        Range(l, h) ==
            IF l > h THEN <<>>
            ELSE IF l = h THEN (IF P(l) THEN <<l>> ELSE <<>>)
            ELSE Range(l, (l + h) \div 2) \o Range((l + h) \div 2 + 1, h)
    IN Range(lo, hi)

\* the maximal runs of positions 1..Len(s) satisfying P, in order, as
\* <<start, end>> pairs of 0-based offsets (end exclusive)
RunsWhere(s, P(_)) ==
    LET Pairs(starts, ends) == [k \in 1..Len(starts) |-> <<starts[k] - 1, ends[k]>>]
    IN Pairs(Positions(1, Len(s), LAMBDA i : P(i) /\ (i = 1 \/ ~P(i - 1))),
             Positions(1, Len(s), LAMBDA i : P(i) /\ (i = Len(s) \/ ~P(i + 1))))

\* the substrings of s at the runs r
Slices(s, r) == [k \in 1..Len(r) |-> substring(s, r[k][1], r[k][2])]

\* the pieces of s between separators, empty pieces dropped
PiecesWhere(s, P(_)) == Slices(s, RunsWhere(s, P))

\* the maximal runs of characters of a class
Runs(s, In(_)) == RunsWhere(s, LAMBDA i : In(s[i]))

RunStrings(s, In(_)) == Slices(s, Runs(s, In))

\* s.split(/\s+/).filter(token => token.length > 0)
splitWhitespace(s) == RunStrings(s, LAMBDA ch : ~IsSpace(ch))

\* s.match(/\b\w+\b/g) || []
matchWords(s) == RunStrings(s, IsWordChar)

\* number of words in the first n characters of s
WordsBefore(s, n) == Len(matchWords(substring(s, 0, n)))

(***************************************************************************)
(* tokenize                                                                *)
(***************************************************************************)
tokenize(s) == splitWhitespace(toLowerCase(s))

(***************************************************************************)
(* levenshteinDistance: the matrix is filled row by row                    *)
(***************************************************************************)
Min3(x, y, z) == Min(x, Min(y, z))

\* matrix[i][j] from the cell to the left, the cell above and the diagonal
LevCellNoSubstitute(same, up, left, diag) ==
    IF same THEN diag ELSE Min(up + 1, left + 1)

LevCell(same, up, left, diag) ==
    IF same THEN diag ELSE Min3(up + 1, left + 1, diag + 1)

\* for (k = lo; k <= hi; k++) x = Step(k, x), starting from x0. The range is
\* halved so that the evaluation nests only logarithmically deep, and the
\* test left = left only makes the first half be computed before the second.
Loop(lo, hi, x0, Step(_, _)) ==
    LET RECURSIVE Run(_, _, _)
        Run(l, h, x) ==
            IF l > h THEN x
            ELSE IF l = h THEN Step(l, x)
            ELSE LET mid == (l + h) \div 2
                     left == Run(l, mid, x)
                 IN IF left = left THEN Run(mid + 1, h, left) ELSE left
    IN Run(lo, hi, x0)

\* row i of the matrix from row i - 1; rows are indexed 1..len2+1 for j = 0..len2
LevRow(str1, str2, i, prev) ==
    Loop(1, Len(str2), <<i>>,
         LAMBDA j, row : Append(row,
             LevCell(str1[i] = str2[j], prev[j + 1], row[j], prev[j])))

levenshteinDistance(str1, str2) ==
    Loop(1, Len(str1), [j \in 1..(Len(str2) + 1) |-> j - 1],
         LAMBDA i, prev : LevRow(str1, str2, i, prev))[Len(str2) + 1]

(***************************************************************************)
(* stringSimilarity.compareTwoStrings (npm string-similarity): the Dice     *)
(* coefficient over character bigrams, returned as <<numerator,            *)
(* denominator>>                                                           *)
(***************************************************************************)
Bigrams(s) == [i \in 1..(Len(s) - 1) |-> SubSeq(s, i, i + 1)]

Occurrences(seq, x) == Cardinality({i \in 1..Len(seq) : seq[i] = x})

compareTwoStrings(first, second) ==
    LET \* a bigram of second counts while first still has an occurrence left
        Matched(fb, sb) ==
            {i \in 1..Len(sb) :
                Occurrences(SubSeq(sb, 1, i), sb[i]) <= Occurrences(fb, sb[i])}
        Dice(f, s) ==
            IF f = s THEN <<1, 1>>
            ELSE IF Len(f) < 2 \/ Len(s) < 2 THEN <<0, 1>>
            ELSE <<2 * Cardinality(Matched(Bigrams(f), Bigrams(s))),
                   Len(f) + Len(s) - 2>>
    IN Dice(SelectSeq(first, LAMBDA ch : ~IsSpace(ch)),
            SelectSeq(second, LAMBDA ch : ~IsSpace(ch)))

(***************************************************************************)
(* fuzzyMatch                                                              *)
(***************************************************************************)
\* substring test in one direction only
fuzzyMatchOneWay(str1, str2) ==
    LET Steps(s1, s2, distance, maxLen, similarity) ==
            \/ s1 = s2
            \/ includes(s1, s2)
            \/ distance <= 2
            \/ (maxLen > 0 /\ 10 * distance <= 3 * maxLen)
            \/ 10 * similarity[1] >= 7 * similarity[2]
        Compare(s1, s2) ==
            Steps(s1, s2, levenshteinDistance(s1, s2), Max(Len(s1), Len(s2)),
                  compareTwoStrings(s1, s2))
    IN Compare(trim(toLowerCase(str1)), trim(toLowerCase(str2)))

\* relativeDistance < 0.3 in place of <= 0.3
fuzzyMatchStrictRatio(str1, str2) ==
    LET Steps(s1, s2, distance, maxLen, similarity) ==
            \/ s1 = s2
            \/ includes(s1, s2) \/ includes(s2, s1)
            \/ distance <= 2
            \/ (maxLen > 0 /\ 10 * distance < 3 * maxLen)
            \/ 10 * similarity[1] >= 7 * similarity[2]
        Compare(s1, s2) ==
            Steps(s1, s2, levenshteinDistance(s1, s2), Max(Len(s1), Len(s2)),
                  compareTwoStrings(s1, s2))
    IN Compare(trim(toLowerCase(str1)), trim(toLowerCase(str2)))

fuzzyMatch(str1, str2) ==
    LET \* relativeDistance = maxLen > 0 ? distance / maxLen : 1, compared to 0.3
        relativeLe03(distance, maxLen) ==
            IF maxLen > 0 THEN 10 * distance <= 3 * maxLen ELSE FALSE
        Steps(s1, s2, distance, maxLen, similarity) ==
            IF s1 = s2 THEN TRUE
            ELSE IF includes(s1, s2) \/ includes(s2, s1) THEN TRUE
            ELSE IF distance <= 2 \/ relativeLe03(distance, maxLen) THEN TRUE
            ELSE IF 10 * similarity[1] >= 7 * similarity[2] THEN TRUE
            ELSE FALSE
        \* s1, s2: the strings in lower case and trimmed
        Compare(s1, s2) ==
            Steps(s1, s2, levenshteinDistance(s1, s2), Max(Len(s1), Len(s2)),
                  compareTwoStrings(s1, s2))
    IN Compare(trim(toLowerCase(str1)), trim(toLowerCase(str2)))

(***************************************************************************)
(* The three listPatterns of findBrandMention, matched as a backtracking    *)
(* engine matches them: every quantifier tries its alternatives in         *)
(* priority order (greedy: longest first, lazy: shortest first) and the    *)
(* first alternative the rest of the pattern can complete is taken.        *)
(***************************************************************************)
NoMatch == [ok |-> FALSE]

\* the character at 0-based offset p, "" past the end
At(t, p) == IF p >= 0 /\ p < Len(t) THEN t[p + 1] ELSE ""

\* end of the longest run of characters in a class starting at offset p
RunEnd(t, p, In(_)) ==
    CHOOSE e \in p..Len(t) :
        /\ e = Len(t) \/ ~In(t[e + 1])
        /\ \A k \in (p + 1)..e : In(t[k])

\* the first candidate, from hi down to lo, that F completes (the candidates
\* are tried in that order, the range being halved to keep the nesting low)
FirstDown(hi, lo, F(_)) ==
    LET RECURSIVE Try(_, _)
        Try(l, h) ==
            IF l > h THEN NoMatch
            ELSE IF l = h THEN F(h)
            ELSE LET Or(first) ==
                         IF first.ok THEN first ELSE Try(l, (l + h) \div 2)
                 IN Or(Try((l + h) \div 2 + 1, h))
    IN Try(lo, hi)

\* the first candidate, from lo up to hi, that F completes
FirstUp(lo, hi, F(_)) ==
    LET RECURSIVE Try(_, _)
        Try(l, h) ==
            IF l > h THEN NoMatch
            ELSE IF l = h THEN F(l)
            ELSE LET Or(first) ==
                         IF first.ok THEN first ELSE Try((l + h) \div 2 + 1, h)
                 IN Or(Try(l, (l + h) \div 2))
    IN Try(lo, hi)

\* ^ without the m flag would still match at offset 0 only; here every
\* offset is taken to start a line
LineStartAnywhere(t, p) == p >= 0

\* ^ and $ under the m flag
LineStart(t, p) == p = 0 \/ IsLineTerminator(At(t, p - 1))
LineEnd(t, p) == p = Len(t) \/ IsLineTerminator(At(t, p))

\* number of "*" available at offset p, at most 3
StarsAt(t, p) == Min(3, RunEnd(t, p, LAMBDA ch : ch = "*") - p)

\* (?:\n|$)
EndOfItem(t, q) ==
    IF At(t, q) = "\n" THEN [ok |-> TRUE, end |-> q + 1]
    ELSE IF LineEnd(t, q) THEN [ok |-> TRUE, end |-> q]
    ELSE NoMatch

\* (?:\n\n|$)
EndOfParagraph(t, q) ==
    IF At(t, q) = "\n" /\ At(t, q + 1) = "\n" THEN [ok |-> TRUE, end |-> q + 2]
    ELSE IF LineEnd(t, q) THEN [ok |-> TRUE, end |-> q]
    ELSE NoMatch

\* \s*(?:\n|$)
SpaceThenEnd(t, q) ==
    FirstDown(RunEnd(t, q, IsSpace), q, LAMBDA w : EndOfItem(t, w))

\* \s*:?\s*(?:\n|$)
ColonTail(t, e) ==
    LET \* :? takes the colon first, then goes without it
        OptionalColon(w) ==
            FirstDown(IF At(t, w) = ":" THEN w + 1 ELSE w, w,
                      LAMBDA x : SpaceThenEnd(t, x))
    IN FirstDown(RunEnd(t, e, IsSpace), e, LAMBDA w : OptionalColon(w))

\* ^\s*(\d+)\.  : the offsets of the number and of the character after "."
ItemHead(t, p) ==
    LET Number(a, b) ==
            IF LineStart(t, p) /\ b > a /\ At(t, b) = "."
            THEN [ok |-> TRUE, numFrom |-> a, numTo |-> b, after |-> b + 1]
            ELSE NoMatch
        Digits0(a) == Number(a, RunEnd(t, a, IsDigit))
    IN Digits0(RunEnd(t, p, IsSpace))

\* the match of a pattern at p from its head and the match of its body
ItemMatch(p, h, body) ==
    IF h.ok /\ body.ok
    THEN [ok |-> TRUE, index |-> p, numFrom |-> h.numFrom, numTo |-> h.numTo,
          from |-> body.from, to |-> body.to, end |-> body.end]
    ELSE NoMatch

\* the content from d to e, once the rest of the pattern has matched
Captured(d, e, rest) ==
    IF rest.ok THEN [ok |-> TRUE, from |-> d, to |-> e, end |-> rest.end]
    ELSE NoMatch

\* Pattern 1:
\* /^\s*(\d+)\.\s+(?:\*{1,3})?\s*([^\n*:]+?)(?:\*{1,3})?\s*:?\s*(?:\n|$)/gm
MatchPattern1(t, p) ==
    LET InContent(ch) == ch \notin {"\n", "*", ":"}
        \* ([^\n*:]+?)(?:\*{1,3})?\s*:?\s*(?:\n|$) with the content from d to e
        AfterContent(d, e) ==
            Captured(d, e,
                FirstDown(e + StarsAt(t, e), e, LAMBDA x : ColonTail(t, x)))
        Content(d) ==
            FirstUp(d + 1, RunEnd(t, d, InContent), LAMBDA e : AfterContent(d, e))
        \* \s*( ... ) after the optional opening markers
        AfterOpening(x) ==
            FirstDown(RunEnd(t, x, IsSpace), x, LAMBDA d : Content(d))
        \* (?:\*{1,3})? : three, two, one marker, then none
        Opening(c) ==
            FirstDown(c + StarsAt(t, c), c, LAMBDA x : AfterOpening(x))
        \* \s+ and the rest, after the head h
        Body(h) ==
            IF h.ok
            THEN ItemMatch(p, h, FirstDown(RunEnd(t, h.after, IsSpace), h.after + 1,
                                           LAMBDA c : Opening(c)))
            ELSE NoMatch
    IN Body(ItemHead(t, p))

\* Pattern 2: /^\s*(\d+)\.\s+([^\n:]+?)\s*:?\s*(?:\n|$)/gm
MatchPattern2(t, p) ==
    LET InContent(ch) == ch \notin {"\n", ":"}
        AfterContent(d, e) == Captured(d, e, ColonTail(t, e))
        Content(d) ==
            FirstUp(d + 1, RunEnd(t, d, InContent), LAMBDA e : AfterContent(d, e))
        Body(h) ==
            IF h.ok
            THEN ItemMatch(p, h, FirstDown(RunEnd(t, h.after, IsSpace), h.after + 1,
                                           LAMBDA c : Content(c)))
            ELSE NoMatch
    IN Body(ItemHead(t, p))

\* Pattern 3:
\* /^\s*(\d+)\.\s+(?:\*{0,3})?\s*([^\n]+?)(?:\*{0,3})?\s*(?:\n\n|$)/gm
MatchPattern3(t, p) ==
    LET InContent(ch) == ch # "\n"
        \* \s*(?:\n\n|$)
        SpaceTail(x) ==
            FirstDown(RunEnd(t, x, IsSpace), x, LAMBDA w : EndOfParagraph(t, w))
        AfterContent(d, e) ==
            Captured(d, e,
                FirstDown(e + StarsAt(t, e), e, LAMBDA x : SpaceTail(x)))
        Content(d) ==
            FirstUp(d + 1, RunEnd(t, d, InContent), LAMBDA e : AfterContent(d, e))
        AfterOpening(x) ==
            FirstDown(RunEnd(t, x, IsSpace), x, LAMBDA d : Content(d))
        Opening(c) ==
            FirstDown(c + StarsAt(t, c), c, LAMBDA x : AfterOpening(x))
        Body(h) ==
            IF h.ok
            THEN ItemMatch(p, h, FirstDown(RunEnd(t, h.after, IsSpace), h.after + 1,
                                           LAMBDA c : Opening(c)))
            ELSE NoMatch
    IN Body(ItemHead(t, p))

MatchPattern(k, t, p) ==
    IF k = 1 THEN MatchPattern1(t, p)
    ELSE IF k = 2 THEN MatchPattern2(t, p)
    ELSE MatchPattern3(t, p)

\* pattern.exec(text) from lastIndex: the leftmost start that matches
Exec(k, t, lastIndex) ==
    FirstUp(lastIndex, Len(t), LAMBDA p : MatchPattern(k, t, p))

\* while ((match = pattern.exec(text)) !== null): all matches of pattern k
RECURSIVE ExecAll(_, _, _)
ExecAll(k, t, lastIndex) ==
    LET Collect(m) == IF m.ok THEN <<m>> \o ExecAll(k, t, m.end) ELSE <<>>
    IN Collect(Exec(k, t, lastIndex))

(***************************************************************************)
(* findBrandMention: extraction of the numbered-list items                 *)
(***************************************************************************)
\* Math.abs(item.index - match.index) < 10
DuplicateDistance == 10
\* text.substring(itemStartIndex, Math.min(itemStartIndex + 500, itemEndIndex))
ItemSpan == 500

\* parseInt(match[1]) of a run of decimal digits
RECURSIVE parseInt(_)
parseInt(ds) ==
    IF ds = <<>> THEN 0
    ELSE 10 * parseInt(SubSeq(ds, 1, Len(ds) - 1)) + DigitValue(ds[Len(ds)])

\* s.replace(/:\s*$/, ''): the leftmost ":" followed only by white space
removeTrailingColon(s) ==
    LET Cut(I) == IF I = {} THEN s
                  ELSE SubSeq(s, 1, (CHOOSE i \in I : \A j \in I : i <= j) - 1)
    IN Cut({i \in 1..Len(s) :
               s[i] = ":" /\ \A k \in (i + 1)..Len(s) : IsSpace(s[k])})

\* match[2].replace(/\*+/g, '').toLowerCase().trim(), then the trailing colon
cleanContent(raw) ==
    trim(removeTrailingColon(
        trim(toLowerCase(SelectSeq(raw, LAMBDA ch : ch # "*")))))

\* the list item a match stands for
ItemOf(t, m) ==
    [number  |-> parseInt(substring(t, m.numFrom, m.numTo)),
     content |-> cleanContent(substring(t, m.from, m.to)),
     index   |-> m.index]

\* the loop over listPatterns: a match is pushed unless an item with its
\* number lies within 10 characters or its content is empty
pushMatches(t, matches) ==
    LET exists(listMatches, item) ==
            \E i \in 1..Len(listMatches) :
                /\ listMatches[i].number = item.number
                /\ Abs(listMatches[i].index - item.index) < DuplicateDistance
        PushItem(listMatches, item) ==
            IF ~exists(listMatches, item) /\ Len(item.content) > 0
            THEN Append(listMatches, item)
            ELSE listMatches
    IN Loop(1, Len(matches), <<>>,
            LAMBDA k, listMatches : PushItem(listMatches, ItemOf(t, matches[k])))

\* listMatches in push order, not sorted
sortByIndexMissing(items) == items

\* listMatches.sort((a, b) => a.index - b.index): a stable sort
sortByIndex(items) ==
    LET RECURSIVE Insert(_, _)
        Insert(sorted, x) ==
            IF sorted = <<>> THEN <<x>>
            ELSE IF sorted[Len(sorted)].index <= x.index THEN Append(sorted, x)
            ELSE Append(Insert(SubSeq(sorted, 1, Len(sorted) - 1), x),
                        sorted[Len(sorted)])
        RECURSIVE Sort(_, _)
        Sort(k, sorted) ==
            IF k > Len(items) THEN sorted ELSE Sort(k + 1, Insert(sorted, items[k]))
    IN Sort(1, <<>>)

\* the first occurrence of each number
uniqueByNumber(items) ==
    LET Keep(k) == \A j \in 1..(k - 1) : items[j].number # items[k].number
        Take(kept) == [i \in 1..Len(kept) |-> items[kept[i]]]
    IN Take(Positions(1, Len(items), Keep))

\* uniqueListMatches
uniqueListMatches(t) ==
    LET \* the matches of the three patterns, pattern after pattern
        InOrder(m) == m[1] \o m[2] \o m[3]
    IN uniqueByNumber(sortByIndex(
           pushMatches(t, InOrder([k \in 1..3 |-> ExecAll(k, t, 0)]))))

\* /recommend|list|best|top|suggest|compare|options/i.test(promptLower)
RecommendationKeywords ==
    {Chars("recommend"), Chars("list"), Chars("best"), Chars("top"),
     Chars("suggest"), Chars("compare"), Chars("options")}

isRecommendationPrompt(p) ==
    \E kw \in RecommendationKeywords : includes(toLowerCase(p), kw)

\* fullItemText of item k: up to the next item, at most 500 characters
fullItemText(t, items, k) ==
    LET \* the index of the first later item, text.length when there is none
        itemEndIndex(Later) ==
            IF Later = {} THEN Len(t)
            ELSE items[CHOOSE j \in Later : \A x \in Later : j <= x].index
        Span(itemStartIndex) ==
            toLowerCase(substring(t, itemStartIndex,
                Min(itemStartIndex + ItemSpan,
                    itemEndIndex({j \in 1..Len(items) :
                                     items[j].index > itemStartIndex}))))
    IN Span(items[k].index)

\* whether list item k is taken as the brand's item
itemMatchesBrand(t, items, k, brandLower, brandTokens) ==
    LET Test(full, itemContentLower) ==
            IF Len(brandTokens) > 1
            THEN \/ \A i \in 1..Len(brandTokens) :
                       includes(itemContentLower, brandTokens[i])
                 \/ \A i \in 1..Len(brandTokens) : includes(full, brandTokens[i])
                 \/ includes(itemContentLower, brandLower)
                 \/ includes(full, brandLower)
            ELSE \/ includes(itemContentLower, brandLower)
                 \/ includes(full, brandLower)
                 \/ fuzzyMatch(itemContentLower, brandLower)
    IN Test(fullItemText(t, items, k), toLowerCase(items[k].content))

\* earliestWordPosition set together with listRank for item k
itemWordPosition(t, items, k, brandLower, brandTokens) ==
    LET Position(wordsBeforeItem, full, brandIndexInItem) ==
            IF Len(brandTokens) > 1 /\ brandIndexInItem # -1
            THEN wordsBeforeItem + WordsBefore(full, brandIndexInItem) + 1
            ELSE wordsBeforeItem + 1
        InItem(full) ==
            Position(WordsBefore(toLowerCase(t), items[k].index), full,
                     indexOf(full, brandLower))
    IN InItem(fullItemText(t, items, k))

(***************************************************************************)
(* findBrandMention: the word strategies                                   *)
(***************************************************************************)
\* Strategy 1: the brand tokens as sequential words, then the exact phrase
multiWordPosition(textLower, brandLower, brandTokens) ==
    LET n == Len(brandTokens)
        \* the word offsets where all the brand tokens match in sequence
        Sequential(allWords) ==
            {i \in 0..(Len(allWords) - n) :
                \A j \in 0..(n - 1) :
                    fuzzyMatch(allWords[i + j + 1], brandTokens[j + 1])}
        ExactPhrase(exactPhraseIndex) ==
            IF exactPhraseIndex # -1
            THEN WordsBefore(textLower, exactPhraseIndex) + 1
            ELSE Infinity
        Earliest(I) ==
            IF I # {} THEN (CHOOSE i \in I : \A x \in I : i <= x) + 1
            ELSE ExactPhrase(indexOf(textLower, brandLower))
    IN Earliest(Sequential(matchWords(textLower)))

\* the first word that contains the brand, without the fuzzy match
singleWordPositionVerbatim(textLower, brandLower) ==
    LET Matching(allWords) ==
            {i \in 1..Len(allWords) : includes(allWords[i], brandLower)}
        Earliest(I) ==
            IF I # {} THEN CHOOSE i \in I : \A x \in I : i <= x ELSE Infinity
    IN Earliest(Matching(matchWords(textLower)))

\* Strategy 2: the first word that fuzzy-matches the brand
singleWordPosition(textLower, brandLower) ==
    LET Matching(allWords) ==
            {i \in 1..Len(allWords) : fuzzyMatch(allWords[i], brandLower)}
        Earliest(I) ==
            IF I # {} THEN CHOOSE i \in I : \A x \in I : i <= x ELSE Infinity
    IN Earliest(Matching(matchWords(textLower)))

\* Strategy 3 left out
wordPositionNoFallback(textLower, brandLower, brandTokens) ==
    IF Len(brandTokens) > 1 THEN multiWordPosition(textLower, brandLower, brandTokens)
    ELSE IF Len(brandTokens) = 1 THEN singleWordPosition(textLower, brandLower)
    ELSE Infinity

\* earliestWordPosition when no list rank was found: strategies 1 to 3
wordPosition(textLower, brandLower, brandTokens) ==
    LET \* Strategy 3: the brand as a substring of the text
        Fallback(found) ==
            IF found = Infinity /\ includes(textLower, brandLower)
            THEN WordsBefore(textLower, indexOf(textLower, brandLower)) + 1
            ELSE found
    IN Fallback(IF Len(brandTokens) > 1
                THEN multiWordPosition(textLower, brandLower, brandTokens)
                ELSE IF Len(brandTokens) = 1
                THEN singleWordPosition(textLower, brandLower)
                ELSE Infinity)

(***************************************************************************)
(* findBrandMention                                                        *)
(***************************************************************************)
\* no list item matched: listRank stays null, earliestWordPosition Infinity
NotListed == [listRank |-> Null, wordPos |-> Infinity]

\* the scan of uniqueListMatches, which stops at the first item that matches
scanListItems(t, items, brandLower, brandTokens) ==
    LET Matching(k) == itemMatchesBrand(t, items, k, brandLower, brandTokens)
        First(hits) ==
            IF hits = <<>> THEN NotListed
            ELSE [listRank |-> items[hits[1]].number,
                  wordPos |-> itemWordPosition(t, items, hits[1],
                                               brandLower, brandTokens)]
    IN First(Positions(1, Len(items), Matching))

\* finalPosition and the returned object
mentionResult(isRecommendation, listRank, earliestWordPosition) ==
    LET finalPosition ==
            IF isRecommendation /\ listRank # Null THEN listRank
            ELSE IF earliestWordPosition # Infinity THEN earliestWordPosition
            ELSE 0
    IN IF earliestWordPosition # Infinity \/ listRank # Null
       THEN [mentioned |-> TRUE, position |-> finalPosition]
       ELSE [mentioned |-> FALSE, position |-> 0]

\* the list rank is looked for whatever the prompt
findBrandMentionAnyPrompt(t, b, p) ==
    LET Result(listed, textLower, brandLower, brandTokens) ==
            mentionResult(TRUE, listed.listRank,
                IF listed.listRank # Null THEN listed.wordPos
                ELSE wordPosition(textLower, brandLower, brandTokens))
        Search(textLower, brandLower, brandTokens) ==
            Result(scanListItems(t, uniqueListMatches(t), brandLower, brandTokens),
                   textLower, brandLower, brandTokens)
        Tokens(brandLower) ==
            Search(toLowerCase(t), brandLower, splitWhitespace(brandLower))
    IN IF t = <<>> \/ b = <<>> THEN [mentioned |-> FALSE, position |-> 0]
       ELSE Tokens(trim(toLowerCase(b)))

findBrandMention(t, b, p) ==
    LET \* the strategies run only while earliestWordPosition is Infinity
        Result(isRecommendation, listed, textLower, brandLower, brandTokens) ==
            mentionResult(isRecommendation, listed.listRank,
                IF listed.listRank # Null THEN listed.wordPos
                ELSE wordPosition(textLower, brandLower, brandTokens))
        \* if (isRecommendationPrompt && uniqueListMatches.length > 0)
        Search(isRecommendation, textLower, brandLower, brandTokens) ==
            Result(isRecommendation,
                   IF isRecommendation
                   THEN scanListItems(t, uniqueListMatches(t), brandLower, brandTokens)
                   ELSE NotListed,
                   textLower, brandLower, brandTokens)
        Tokens(brandLower) ==
            Search(isRecommendationPrompt(p), toLowerCase(t), brandLower,
                   splitWhitespace(brandLower))
    IN IF t = <<>> \/ b = <<>> THEN [mentioned |-> FALSE, position |-> 0]
       ELSE Tokens(trim(toLowerCase(b)))

(***************************************************************************)
(* sentiment.analyze (npm sentiment): the AFINN score of the tokens, a      *)
(* negator before a word reversing its score, and the score per token      *)
(***************************************************************************)
\* words of the AFINN-165 lexicon that the modelled texts use
Lexicon ==
    {<<Chars("good"), 3>>, <<Chars("bad"), -3>>, <<Chars("love"), 3>>,
     <<Chars("fantastic"), 4>>, <<Chars("terrible"), -3>>,
     <<Chars("unreliable"), -2>>, <<Chars("fine"), 2>>, <<Chars("yes"), 1>>,
     <<Chars("no"), -1>>}

Negators == {Chars("not"), Chars("dont"), Chars("isnt"), Chars("cant"),
             Chars("doesnt"), Chars("wont"), Chars("non")}

LexiconScore(token) ==
    LET Entry(E) == IF E = {} THEN 0 ELSE (CHOOSE e \in E : TRUE)[2]
    IN Entry({e \in Lexicon : e[1] = token})

\* the tokenizer: lower case, line feeds and punctuation to spaces, runs of
\* white space to one space, trim, split(' ')
\* (the tokenizer also blanks the double quote and the backquote, which no
\* modelled text contains)
SentimentPunctuation == Chars(".,/#!?$%^&*;:{}=_~()")

sentimentTokens(phrase) ==
    LET n == Len(phrase)
        IsSeparator(mapped, i) ==
            \/ mapped[i] = " "
            \/ /\ IsSpace(mapped[i])
               /\ \/ i > 1 /\ IsSpace(mapped[i - 1])
                  \/ i < n /\ IsSpace(mapped[i + 1])
                  \/ \A j \in 1..i : IsSpace(mapped[j])
                  \/ \A j \in i..n : IsSpace(mapped[j])
        \* ''.split(' ') is the one empty token
        NonEmpty(pieces) == IF pieces = <<>> THEN <<(<<>>)>> ELSE pieces
        Split(mapped) ==
            NonEmpty(PiecesWhere(mapped, LAMBDA i : ~IsSeparator(mapped, i)))
    IN Split([i \in 1..n |->
                 IF phrase[i] = "\n"
                    \/ \E k \in 1..Len(SentimentPunctuation) :
                          SentimentPunctuation[k] = phrase[i]
                 THEN " " ELSE LowerChar(phrase[i])])

\* result.score and result.comparative (as <<numerator, denominator>>)
analyze(phrase) ==
    LET Signed(negated, value) == IF negated THEN -value ELSE value
        TokenScore(tokens, i) ==
            Signed(i > 1 /\ tokens[i - 1] \in Negators, LexiconScore(tokens[i]))
        Result(tokens, score) ==
            [score |-> score, comparative |-> <<score, Len(tokens)>>]
        Score(tokens) ==
            Result(tokens, Loop(1, Len(tokens), 0,
                                LAMBDA i, sum : sum + TokenScore(tokens, i)))
    IN Score(sentimentTokens(phrase))

(***************************************************************************)
(* analyzeBrandSentiment                                                   *)
(***************************************************************************)
\* paragraph.substring(brandIndex - 100, brandIndex + brandLower.length + 100)
SnippetWindow == 100
\* context.substring(0, 200)
MaxContextText == 200
\* sentimentResults.slice(0, 5)
MaxContexts == 5

\* text.split(/[.!?]+/).filter(s => s.trim().length > 0)
splitSentences(t) ==
    SelectSeq(PiecesWhere(t, LAMBDA i : t[i] \notin {".", "!", "?"}),
              LAMBDA piece : trim(piece) # <<>>)

\* text.split(/\n\n+/).filter(p => p.trim().length > 0)
splitParagraphs(t) ==
    LET InBreak(i) ==
            /\ t[i] = "\n"
            /\ \/ i > 1 /\ t[i - 1] = "\n"
               \/ i < Len(t) /\ t[i + 1] = "\n"
    IN SelectSeq(PiecesWhere(t, LAMBDA i : ~InBreak(i)),
                 LAMBDA piece : trim(piece) # <<>>)

\* the fragment mentions the brand phrase or one of its tokens
mentionsBrand(fragment, brandLower, brandTokens) ==
    LET lower == toLowerCase(fragment)
    IN \/ includes(lower, brandLower)
       \/ \E i \in 1..Len(brandTokens) : includes(lower, brandTokens[i])

\* the contexts of the sentences, in order
sentenceContexts(t, brandLower, brandTokens) ==
    LET Trimmed(hits) == [k \in 1..Len(hits) |-> trim(hits[k])]
    IN Trimmed(SelectSeq(splitSentences(t),
                         LAMBDA x : mentionsBrand(x, brandLower, brandTokens)))

\* the snippet around the brand in a paragraph, <<>> when there is none
paragraphSnippet(paragraph, brandLower, brandTokens) ==
    LET Around(brandIndex) ==
            IF mentionsBrand(paragraph, brandLower, brandTokens) /\ brandIndex # -1
            THEN trim(substring(paragraph,
                     Max(0, brandIndex - SnippetWindow),
                     Min(Len(paragraph), brandIndex + Len(brandLower) + SnippetWindow)))
            ELSE <<>>
    IN Around(indexOf(toLowerCase(paragraph), brandLower))

\* contexts: the sentences, then the paragraph snippets not yet collected,
\* and the whole text when there is neither
collectContexts(t, b) ==
    LET \* if (snippet && !contexts.includes(snippet)) contexts.push(snippet)
        AddSnippet(contexts, snippet) ==
            IF snippet # <<>> /\ \A i \in 1..Len(contexts) : contexts[i] # snippet
            THEN Append(contexts, snippet)
            ELSE contexts
        \* if (contexts.length === 0) contexts.push(text)
        OrWholeText(contexts) == IF contexts = <<>> THEN <<t>> ELSE contexts
        Collect(brandLower, brandTokens, paragraphs) ==
            OrWholeText(
                Loop(1, Len(paragraphs), sentenceContexts(t, brandLower, brandTokens),
                     LAMBDA k, contexts :
                         AddSnippet(contexts,
                             paragraphSnippet(paragraphs[k], brandLower, brandTokens))))
        Tokens(brandLower) ==
            Collect(brandLower, splitWhitespace(brandLower), splitParagraphs(t))
    IN Tokens(trim(toLowerCase(b)))

\* context.substring(0, 200), and an ellipsis when context.length > 200
displayText(context) ==
    substring(context, 0, MaxContextText)
        \o (IF Len(context) > MaxContextText THEN Chars("...") ELSE <<>>)

\* sentimentResults
sentimentResults(contexts) ==
    LET Entry(context, result) ==
            [text |-> displayText(context),
             score |-> result.score,
             comparative |-> result.comparative]
    IN [k \in 1..Len(contexts) |-> Entry(contexts[k], analyze(contexts[k]))]

\* r.reduce((sum, r) => sum + r.score, 0)
totalScore(results) ==
    Loop(1, Len(results), 0, LAMBDA k, sum : sum + results[k].score)

\* the sum of the comparative scores, as <<numerator, denominator>>
totalComparative(results) ==
    Loop(1, Len(results), <<0, 1>>,
         LAMBDA k, sum : <<sum[1] * results[k].comparative[2]
                             + results[k].comparative[1] * sum[2],
                           sum[2] * results[k].comparative[2]>>)

\* Math.round(x * 100), for x = num / den with den > 0
roundHundredths(num, den) == (200 * num + den) \div (2 * den)

\* the label of avgScore = total / n, n > 0
sentimentLabelInclusive(total, n) ==
    IF total >= 2 * n THEN "very_positive"
    ELSE IF 2 * total >= n THEN "positive"
    ELSE IF total <= -2 * n THEN "very_negative"
    ELSE IF 2 * total <= -n THEN "negative"
    ELSE "neutral"

sentimentLabel(total, n) ==
    IF total > 2 * n THEN "very_positive"
    ELSE IF 2 * total > n THEN "positive"
    ELSE IF total < -2 * n THEN "very_negative"
    ELSE IF 2 * total < -n THEN "negative"
    ELSE "neutral"

\* the object returned for an empty text or brand
emptySentiment ==
    [sentiment |-> "neutral", score |-> 0, confidence |-> 0, context |-> <<>>]

\* score, comparative and confidence are in hundredths
analyzeBrandSentiment(t, b) ==
    LET \* total and comparative are the sums over all the n results
        Report(results, n, total, comparative) ==
            [sentiment    |-> sentimentLabel(total, n),
             score        |-> roundHundredths(total, n),
             comparative  |-> roundHundredths(comparative[1],
                                              comparative[2] * Max(1, n)),
             confidence   |-> roundHundredths(Abs(comparative[1]),
                                              comparative[2] * Max(1, n)),
             \* contexts.length, which map keeps
             contextCount |-> n,
             contexts     |-> SubSeq(results, 1, Min(MaxContexts, n))]
        Totals(results) ==
            Report(results, Len(results), totalScore(results),
                   totalComparative(results))
    IN IF t = <<>> \/ b = <<>> THEN emptySentiment
       ELSE Totals(sentimentResults(collectContexts(t, b)))

(***************************************************************************)
(* Inputs of the analyzers                                                 *)
(***************************************************************************)
\* a text is the concatenation of at most MaxFragments fragments
MaxFragments == 2

Fragments ==
    << Chars("1. Acme\n"),
       Chars("2. **ACME Corp:** fine\n"),
       Chars("0. Globex is good.\n\n"),
       Chars("Acme"),
       Chars("Globex corp "),
       Chars("\n"),
       Chars("acme bad! Acme no? Acme yes. "),
       Chars("2. globex\n") >>

RECURSIVE Concat(_)
Concat(parts) ==
    IF parts = <<>> THEN <<>>
    ELSE Fragments[Head(parts)] \o Concat(Tail(parts))

\* the numbered items written inline on one line
InlineListText == Chars("Our top picks: 1. Acme Corp 2. Globex 3. Initech")

\* a sentence longer than the 200 characters a context displays
LongSentence == Chars("Acme ") \o [i \in 1..200 |-> "x"] \o Chars(" fine. ")

\* texts whose contexts average exactly 0.5 (for Acme) and exactly -2
HalfAverageText == Chars("Acme fine. Acme. Acme. no. no")
MinusTwoAverageText == Chars("no, no")

\* a text whose second word is inside the brand Acme, before the brand itself
EarlyMatchText == Chars("Try a new Acme")

\* a text that contains the brand C++ inside a longer word
InsideWordText == Chars("use msvc++ today")

SpecialTexts ==
    {InlineListText, LongSentence, LongSentence \o Concat(<<7, 7>>),
     HalfAverageText, MinusTwoAverageText, EarlyMatchText, InsideWordText}

Texts ==
    {Concat(parts) :
        parts \in UNION {[1..k -> 1..Len(Fragments)] : k \in 0..MaxFragments}}
    \cup SpecialTexts

Brands ==
    {Chars("Acme"), Chars("acme corp"), Chars("Globex"), Chars("C++"),
     Chars(" "), <<>>}

Prompts == {Chars("list the best options"), Chars("hello")}

\* a function that has not been called
NotCalled == [called |-> FALSE]
Returned(v) == [called |-> TRUE, value |-> v]

(***************************************************************************)
(* Inputs of the string functions                                          *)
(***************************************************************************)
MaxStringLen == 2

Letters == {"a", "b"}

SpecialStrings ==
    {Chars("abc"), Chars("xyz"), Chars(" Ab "), Chars("abcdefghij"),
     Chars("xyzdefghij"), Chars("fghijabcde"), Chars("abcdxyz")}

Strings ==
    UNION {[1..k -> Letters] : k \in 0..MaxStringLen} \cup SpecialStrings

(***************************************************************************)
(* The analyzers called on an input                                        *)
(***************************************************************************)
idleStrings ==
    /\ strA = <<>> /\ strB = <<>> /\ strC = <<>>
    /\ fuzzy = NotCalled

idleServer ==
    /\ configured = FALSE
    /\ reqs = <<>>

idleCore ==
    /\ text = <<>> /\ brand = <<>> /\ prompt = <<>>
    /\ mention = NotCalled
    /\ sentiment = NotCalled

Init ==
    /\ text \in Texts
    /\ brand \in Brands
    /\ prompt \in Prompts
    /\ mention = NotCalled
    /\ sentiment = NotCalled
    /\ idleStrings
    /\ idleServer

\* findBrandMention(text, brand, prompt)
Locate ==
    /\ ~mention.called /\ ~sentiment.called
    /\ mention' = Returned(findBrandMention(text, brand, prompt))
    /\ UNCHANGED <<text, brand, prompt, sentiment, strA, strB, strC, fuzzy,
                   configured, reqs>>

\* analyzeBrandSentiment(text, brand)
Analyze ==
    /\ ~mention.called /\ ~sentiment.called
    /\ sentiment' = Returned(analyzeBrandSentiment(text, brand))
    /\ UNCHANGED <<text, brand, prompt, mention, strA, strB, strC, fuzzy,
                   configured, reqs>>

\* the result is handed to the caller and nothing is kept
Discard ==
    /\ mention.called \/ sentiment.called
    /\ mention' = NotCalled
    /\ sentiment' = NotCalled
    /\ UNCHANGED <<text, brand, prompt, strA, strB, strC, fuzzy, configured, reqs>>

Next == Locate \/ Analyze \/ Discard

Spec == Init /\ [][Next]_vars

(***************************************************************************)
(* The string functions called on their arguments                          *)
(***************************************************************************)
StringsInit ==
    /\ strA \in Strings
    /\ strB \in Strings
    /\ strC \in Strings
    /\ fuzzy = NotCalled
    /\ idleCore
    /\ idleServer

\* levenshteinDistance on the pairs of the three strings
Measure ==
    /\ ~fuzzy.called
    /\ fuzzy' = [called |-> TRUE, op |-> "levenshteinDistance",
                 ab |-> levenshteinDistance(strA, strB),
                 bc |-> levenshteinDistance(strB, strC),
                 ac |-> levenshteinDistance(strA, strC),
                 aa |-> levenshteinDistance(strA, strA)]
    /\ UNCHANGED <<text, brand, prompt, mention, sentiment, strA, strB, strC,
                   configured, reqs>>

\* fuzzyMatch on the first two strings, in both orders
Match ==
    /\ ~fuzzy.called
    /\ fuzzy' = [called |-> TRUE, op |-> "fuzzyMatch",
                 ab |-> fuzzyMatch(strA, strB),
                 ba |-> fuzzyMatch(strB, strA)]
    /\ UNCHANGED <<text, brand, prompt, mention, sentiment, strA, strB, strC,
                   configured, reqs>>

Forget ==
    /\ fuzzy.called
    /\ fuzzy' = NotCalled
    /\ UNCHANGED <<text, brand, prompt, mention, sentiment, strA, strB, strC,
                   configured, reqs>>

StringsNext == Measure \/ Match \/ Forget

SpecStrings == StringsInit /\ [][StringsNext]_vars

(***************************************************************************)
(* POST /api/check: the handler runs up to its await, and on from the       *)
(* settled generateContent promise                                         *)
(***************************************************************************)
\* requests the model follows
NumRequests == 2

\* JavaScript values of the thrown errors and of the error property
JsString(s) == [type |-> "string", text |-> s]
JsNumber(digits) == [type |-> "number", text |-> digits]
JsUndefined == [type |-> "undefined", text |-> ""]

\* ToBoolean
Truthy(v) ==
    \/ v.type = "string" /\ v.text # ""
    \/ v.type = "number" /\ v.text # "0"

\* a value generateContent rejects with, or response.text() throws: its kind,
\* its message property, and itself when it is a primitive
Thrown ==
    {[kind |-> "object", message |-> JsString("quota exceeded"), self |-> JsUndefined],
     [kind |-> "object", message |-> JsString(""), self |-> JsUndefined],
     [kind |-> "object", message |-> JsNumber("503"), self |-> JsUndefined],
     [kind |-> "string", message |-> JsUndefined, self |-> JsString("timeout")],
     [kind |-> "number", message |-> JsUndefined, self |-> JsNumber("42")],
     [kind |-> "null", message |-> JsUndefined, self |-> JsUndefined],
     [kind |-> "undefined", message |-> JsUndefined, self |-> JsUndefined]}

\* the texts the model answers with
Replies == {<<>>, Chars("1. Acme\n"), Chars("Acme is good.")}

\* req.body.prompt and req.body.brand, <<>> when missing
RequestPrompts == {<<>>, Chars("hello"), Chars("list the best options")}
RequestBrands == {<<>>, Chars("Acme")}

\* a property of the response body: absent (undefined) or a value
Absent == [defined |-> FALSE]
Present(v) == [defined |-> TRUE, value |-> v]

NoResponse == [status |-> 0]

\* how await model.generateContent(prompt) and result.response.text() ended
\* for a request: not yet, with a text, or with a thrown value
NoReply == [kind |-> "none"]
Resolved(responseText) == [kind |-> "text", text |-> responseText]
Rejected(error) == [kind |-> "error", error |-> error]

\* a request: its place in the handler, the prompt and brand of its body, the
\* outcome of its model call, whether another request was awaiting the model
\* when its text arrived, and what has been sent
NoRequest ==
    [pc |-> "idle", prompt |-> <<>>, brand |-> <<>>, analyzed |-> FALSE,
     failed |-> FALSE, reply |-> NoReply, overlapped |-> FALSE,
     responses |-> 0, response |-> NoResponse]

\* whether a request other than i is suspended at the await
OthersAwaiting(i) == \E j \in 1..NumRequests : j # i /\ reqs[j].pc = "awaiting"

\* res.status(400).json({error: ...})
BadRequest ==
    [status |-> 400,
     body |-> [error |-> Present(JsString("Both prompt and brand are required"))]]

\* the fallback object of the handler, with its error
Fallback(r, errorMessage) ==
    [status |-> 200,
     body |-> [prompt |-> r.prompt, brand |-> r.brand,
               mentioned |-> FALSE, position |-> 0,
               sentiment |-> "neutral", sentimentScore |-> 0,
               sentimentConfidence |-> 0, sentimentContexts |-> Present(<<>>),
               raw |-> Chars("API_ERROR"), error |-> Present(errorMessage)]]

\* the object sent after the analyzers have run on responseText, for the
\* prompt and brand the handler holds
CheckedFor(p, b, responseText) ==
    LET Body(found, sentimentAnalysis) ==
            [prompt |-> p, brand |-> b,
             mentioned |-> found.mentioned, position |-> found.position,
             sentiment |-> sentimentAnalysis.sentiment,
             sentimentScore |-> sentimentAnalysis.score,
             sentimentConfidence |-> sentimentAnalysis.confidence,
             sentimentContexts |->
                 IF "contexts" \in DOMAIN sentimentAnalysis
                 THEN Present(sentimentAnalysis.contexts) ELSE Absent,
             raw |-> responseText, error |-> Absent]
    IN [status |-> 200,
        body |-> Body(findBrandMention(responseText, b, p),
                      analyzeBrandSentiment(responseText, b))]

\* prompt kept in a variable of the module, which a request handled while
\* this one awaited has overwritten
CheckedSharedPrompt(r, responseText) ==
    LET Later == {j \in 1..NumRequests :
                     reqs[j].pc = "awaiting" /\ reqs[j].prompt # r.prompt}
        Shared == IF Later = {} THEN r.prompt
                  ELSE reqs[CHOOSE j \in Later : TRUE].prompt
    IN CheckedFor(Shared, r.brand, responseText)

\* prompt and brand are constants of the handler's own invocation
Checked(r, responseText) == CheckedFor(r.prompt, r.brand, responseText)

\* errorMessage of the catch block, for an error whose message can be read
errorMessage(error) ==
    IF Truthy(error.message) THEN error.message
    ELSE IF error.kind = "string" THEN error.self
    ELSE JsString("API_ERROR")

Respond(r, response) ==
    [r EXCEPT !.pc = "done", !.responses = @ + 1, !.response = response]

ServerInit ==
    /\ configured \in BOOLEAN
    /\ reqs = [i \in 1..NumRequests |-> NoRequest]
    /\ idleCore
    /\ idleStrings

\* a request arrives
Receive(i) ==
    /\ reqs[i].pc = "idle"
    /\ \E p \in RequestPrompts, b \in RequestBrands :
          reqs' = [reqs EXCEPT ![i] = [@ EXCEPT !.pc = "received",
                                                !.prompt = p, !.brand = b]]
    /\ UNCHANGED <<text, brand, prompt, mention, sentiment, strA, strB, strC,
                   fuzzy, configured>>

\* the handler from its entry to a return or to await model.generateContent
Handle(i) ==
    /\ reqs[i].pc = "received"
    /\ reqs' = [reqs EXCEPT ![i] =
          IF @.prompt = <<>> \/ @.brand = <<>> THEN Respond(@, BadRequest)
          ELSE IF ~configured
          THEN Respond(@, Fallback(@,
                   JsString("GEMINI_API_KEY not configured on server")))
          ELSE [@ EXCEPT !.pc = "awaiting"]]
    /\ UNCHANGED <<text, brand, prompt, mention, sentiment, strA, strB, strC,
                   fuzzy, configured>>

\* generateContent resolves: the analyzers run and the result is sent
Resolve(i) ==
    /\ reqs[i].pc = "awaiting"
    /\ \E responseText \in Replies :
          reqs' = [reqs EXCEPT ![i] =
              Respond([@ EXCEPT !.analyzed = TRUE,
                                !.reply = Resolved(responseText),
                                !.overlapped = OthersAwaiting(i)],
                      Checked(@, responseText))]
    /\ UNCHANGED <<text, brand, prompt, mention, sentiment, strA, strB, strC,
                   fuzzy, configured>>

\* what Express sends when it is handed the error of a handler
ServerError == [status |-> 500]

\* generateContent rejects or response.text() throws: the catch block, where
\* reading error.message of null or undefined throws a TypeError. The promise
\* of the handler is then rejected: Express 4 leaves the request unanswered,
\* Express 5 answers it with status 500.
Reject(i) ==
    /\ reqs[i].pc = "awaiting"
    /\ \E error \in Thrown, answered \in BOOLEAN :
          reqs' = [reqs EXCEPT ![i] =
              IF error.kind \in {"null", "undefined"}
              THEN [@ EXCEPT !.pc = "faulted", !.failed = TRUE,
                             !.reply = Rejected(error),
                             !.responses = IF answered THEN 1 ELSE 0,
                             !.response = IF answered THEN ServerError
                                          ELSE NoResponse]
              ELSE Respond([@ EXCEPT !.failed = TRUE,
                                     !.reply = Rejected(error)],
                           Fallback(@, errorMessage(error)))]
    /\ UNCHANGED <<text, brand, prompt, mention, sentiment, strA, strB, strC,
                   fuzzy, configured>>

ServerNext ==
    \E i \in 1..NumRequests : Receive(i) \/ Handle(i) \/ Resolve(i) \/ Reject(i)

SpecServer == ServerInit /\ [][ServerNext]_vars

(***************************************************************************)
(* Properties of the string functions                                      *)
(***************************************************************************)
\* C7: fuzzyMatch is symmetric: whenever it has been called on two strings
\* in both orders, the two answers are equal, whichever of the four steps
\* (equality, substring, edit distance, similarity) decides.
FuzzyMatchSymmetric ==
    (fuzzy.called /\ fuzzy.op = "fuzzyMatch") => fuzzy.ab = fuzzy.ba

\* C7 witness: two strings that are neither equal nor substrings of each
\* other nor close in edit distance, matched by the similarity score alone
FuzzyMatchBySimilarity ==
    /\ fuzzy.called /\ fuzzy.op = "fuzzyMatch"
    /\ strA = Chars("abcdefghij") /\ strB = Chars("fghijabcde")
    /\ fuzzy.ab /\ fuzzy.ba

\* strings short enough for the edit distance to be computed by definition
ReferenceLen == 3

\* the edit distance by its definition: the fewest single-character
\* insertions, deletions and substitutions that turn a into b
RECURSIVE EditDistance(_, _)
EditDistance(a, b) ==
    IF a = <<>> THEN Len(b)
    ELSE IF b = <<>> THEN Len(a)
    ELSE IF Head(a) = Head(b) THEN EditDistance(Tail(a), Tail(b))
    ELSE 1 + Min3(EditDistance(Tail(a), b),
                  EditDistance(a, Tail(b)),
                  EditDistance(Tail(a), Tail(b)))

\* C8: levenshteinDistance is the exact edit distance with unit costs (checked
\* against the definition on the short strings), distance(a, a) = 0 and
\* distance(a, c) <= distance(a, b) + distance(b, c).
LevenshteinExactMetric ==
    (fuzzy.called /\ fuzzy.op = "levenshteinDistance") =>
        /\ fuzzy.aa = 0
        /\ fuzzy.ac <= fuzzy.ab + fuzzy.bc
        /\ (Len(strA) <= ReferenceLen /\ Len(strB) <= ReferenceLen)
               => fuzzy.ab = EditDistance(strA, strB)

\* C8 witness: three different strings on which the triangle inequality is
\* tight and the middle distance needs a substitution
LevenshteinTightTriangle ==
    /\ fuzzy.called /\ fuzzy.op = "levenshteinDistance"
    /\ strA = <<"a">> /\ strB = <<"b">> /\ strC = <<"b", "b">>
    /\ fuzzy.ab = 1 /\ fuzzy.bc = 1 /\ fuzzy.ac = 1 + 1

(***************************************************************************)
(* Properties of findBrandMention                                          *)
(***************************************************************************)
\* C1: in every result of findBrandMention, position = 0 exactly when
\* mentioned = false, and position is never negative.
PositionZeroIffNotMentioned ==
    mention.called =>
        /\ (mention.value.position = 0) <=> ~mention.value.mentioned
        /\ mention.value.position >= 0

\* the result the rule of C2 gives: the number of the first matching list item
\* in document order under a recommendation prompt, else the word position
RankOrWordPosition(t, b, p) ==
    LET FirstInDocument(items, M) ==
            CHOOSE k \in M : \A x \in M : items[k].index <= items[x].index
        Word(wp) ==
            IF wp # Infinity THEN [mentioned |-> TRUE, position |-> wp]
            ELSE [mentioned |-> FALSE, position |-> 0]
        Decide(items, M, textLower, brandLower, brandTokens) ==
            IF isRecommendationPrompt(p) /\ M # {}
            THEN [mentioned |-> TRUE,
                  position |-> items[FirstInDocument(items, M)].number]
            ELSE Word(wordPosition(textLower, brandLower, brandTokens))
        Matching(items, brandLower, brandTokens) ==
            {k \in 1..Len(items) :
                itemMatchesBrand(t, items, k, brandLower, brandTokens)}
        WithItems(items, textLower, brandLower, brandTokens) ==
            Decide(items, Matching(items, brandLower, brandTokens),
                   textLower, brandLower, brandTokens)
        WithBrand(brandLower) ==
            WithItems(uniqueListMatches(t), toLowerCase(t), brandLower,
                      splitWhitespace(brandLower))
    IN IF t = <<>> \/ b = <<>> THEN [mentioned |-> FALSE, position |-> 0]
       ELSE WithBrand(trim(toLowerCase(b)))

\* C2: under a recommendation prompt with a list item matching the brand the
\* result is mentioned with the list number of the first matching item in
\* document order; otherwise it is the word position when one is found, and
\* {mentioned: false, position: 0} when none is.
ListRankElseWordPosition ==
    mention.called => mention.value = RankOrWordPosition(text, brand, prompt)

\* C2 witness: the brand is the second list item and the fourth word, and the
\* recommendation prompt makes the result its list number
SecondItemReported ==
    /\ mention.called
    /\ isRecommendationPrompt(prompt)
    /\ text = Chars("1. Acme\n2. globex\n")
    /\ brand = Chars("Globex")
    /\ mention.value = [mentioned |-> TRUE, position |-> 2]

\* the example of C3
InlineListExample ==
    /\ mention.called
    /\ text = InlineListText
    /\ prompt = Chars("list the best options")
    /\ brand = Chars("Globex")

\* C3 as stated: the items written inline on one line are taken as list items
\* and Globex is reported at list rank 2.
InlineListRankTwo ==
    InlineListExample => mention.value = [mentioned |-> TRUE, position |-> 2]

\* C3, amended: the list patterns match at the start of a line only, so the
\* text has no list item and Globex is reported as the eighth word.
InlineListWordEight ==
    InlineListExample => mention.value = [mentioned |-> TRUE, position |-> 8]

\* C3 witness: the example has run and no list item was extracted
InlineListHasNoItems ==
    /\ InlineListExample
    /\ uniqueListMatches(text) = <<>>
    /\ mention.value.mentioned

\* C4: for a non-empty text and brand, when the text in lower case contains
\* the trimmed brand in lower case, the brand is reported as mentioned.
SubstringIsMentioned ==
    (/\ mention.called
     /\ text # <<>> /\ brand # <<>>
     /\ includes(toLowerCase(text), trim(toLowerCase(brand))))
        => mention.value.mentioned

\* C4 witness: the brand in lower case, the text with the brand in capitals
CapitalsMatched ==
    /\ mention.called
    /\ text = Chars("2. **ACME Corp:** fine\n")
    /\ brand = Chars("acme corp")
    /\ ~includes(text, brand)
    /\ mention.value.mentioned

\* C5: for an empty text or an empty brand findBrandMention returns
\* {mentioned: false, position: 0} and analyzeBrandSentiment returns neutral,
\* score 0, confidence 0 and an empty contexts sequence.
EmptyInputZeroResults ==
    (text = <<>> \/ brand = <<>>) =>
        /\ mention.called => mention.value = [mentioned |-> FALSE, position |-> 0]
        /\ sentiment.called =>
               /\ sentiment.value.sentiment = "neutral"
               /\ sentiment.value.score = 0
               /\ sentiment.value.confidence = 0
               /\ "contexts" \in DOMAIN sentiment.value
               /\ sentiment.value.contexts = <<>>

(***************************************************************************)
(* Properties of analyzeBrandSentiment                                     *)
(***************************************************************************)
\* the returned contexts are the first five collected contexts, each
\* displayed with at most 200 characters and an ellipsis
FirstFiveDisplayed(returned, all, sentences) ==
    /\ Len(returned) <= 5
    /\ Len(returned) = Min(5, Len(all))
    /\ \A k \in 1..Len(returned) :
           /\ returned[k].text = displayText(all[k])
           /\ Len(returned[k].text) <= 203
           /\ Len(returned[k].text) > 200 <=> Len(all[k]) > 200
           /\ k <= Len(sentences) => all[k] = sentences[k]

\* FirstFiveDisplayed for the contexts of text t and brand b
ContextsOf(returned, t, b) ==
    LET WithBrand(brandLower) ==
            FirstFiveDisplayed(returned, collectContexts(t, b),
                sentenceContexts(t, brandLower, splitWhitespace(brandLower)))
    IN WithBrand(trim(toLowerCase(b)))

\* C9: for every text and brand the result of analyzeBrandSentiment has a
\* contexts sequence of at most 5 entries, the first 5 contexts in discovery
\* order (the sentences first), each text of at most 203 characters with the
\* ellipsis only when the context is longer than 200.
ContextsCappedInOrder ==
    sentiment.called =>
        /\ "contexts" \in DOMAIN sentiment.value
        /\ ContextsOf(sentiment.value.contexts, text, brand)

\* C9 for a non-empty text and brand, where the result has its contexts
ContextsCappedInOrderNonEmpty ==
    (sentiment.called /\ text # <<>> /\ brand # <<>>) =>
        /\ "contexts" \in DOMAIN sentiment.value
        /\ ContextsOf(sentiment.value.contexts, text, brand)

\* the label and the confidence of a result, from all the results
LabelOfAverage(value, total, n, comparative) ==
    /\ value.sentiment = "very_positive" <=> total > 2 * n
    /\ value.sentiment = "positive" <=> (2 * total > n /\ total <= 2 * n)
    /\ value.sentiment = "very_negative" <=> total < -2 * n
    /\ value.sentiment = "negative" <=> (2 * total < -n /\ total >= -2 * n)
    /\ value.sentiment = "neutral" <=> (2 * total <= n /\ 2 * total >= -n)
    /\ value.confidence = roundHundredths(Abs(comparative[1]), comparative[2] * n)

AgreesWithAllContexts(value, results) ==
    LabelOfAverage(value, totalScore(results), Len(results),
                   totalComparative(results))

\* C10: the label follows the average raw score of all collected contexts by
\* the thresholds 2, 0.5, -0.5 and -2, a boundary value giving the weaker
\* label, and confidence is the absolute value of the average comparative
\* score, never negative.
LabelFollowsAverageOfAll ==
    sentiment.called =>
        /\ sentiment.value.confidence >= 0
        /\ (text # <<>> /\ brand # <<>>) =>
               AgreesWithAllContexts(sentiment.value,
                   sentimentResults(collectContexts(text, brand)))

\* C10 witness: eight contexts whose scores average exactly -0.5, which is
\* neutral, while the five returned ones alone average -0.8
BoundaryAverageOverEight ==
    /\ sentiment.called
    /\ text = LongSentence \o Concat(<<7, 7>>)
    /\ brand = Chars("Acme")
    /\ sentiment.value.contextCount = 8
    /\ Len(sentiment.value.contexts) = 5
    /\ totalScore(sentiment.value.contexts) = -4
    /\ sentiment.value.score = -50
    /\ sentiment.value.sentiment = "neutral"

(***************************************************************************)
(* Properties of POST /api/check                                           *)
(***************************************************************************)
\* the neutral fallback with an error message that is a string
NeutralFallback(response) ==
    /\ response.status = 200
    /\ ~response.body.mentioned
    /\ response.body.position = 0
    /\ response.body.sentiment = "neutral"
    /\ response.body.sentimentScore = 0
    /\ response.body.sentimentConfidence = 0
    /\ response.body.sentimentContexts = Present(<<>>)
    /\ response.body.error.defined
    /\ response.body.error.value.type = "string"

\* C6: a request that carries a prompt and a brand never ends in an uncaught
\* fault and is answered exactly once; without credentials the analyzers are
\* not invoked; without credentials, or when the model call fails with any
\* value, the answer is the neutral fallback with an error message string.
FailuresAnsweredWithFallback ==
    \A i \in 1..NumRequests :
        (reqs[i].prompt # <<>> /\ reqs[i].brand # <<>>) =>
            /\ reqs[i].pc # "faulted"
            /\ reqs[i].pc = "done" => reqs[i].responses = 1
            /\ (reqs[i].pc = "done" /\ ~configured) =>
                   ~reqs[i].analyzed /\ NeutralFallback(reqs[i].response)
            /\ (reqs[i].pc = "done" /\ reqs[i].failed) =>
                   NeutralFallback(reqs[i].response)


\* what a request is answered with according to its own prompt, brand and
\* model outcome alone (and the server's credentials)
OwnResponse(r) ==
    IF r.prompt = <<>> \/ r.brand = <<>> THEN BadRequest
    ELSE IF r.reply.kind = "text"
    THEN CheckedFor(r.prompt, r.brand, r.reply.text)
    ELSE IF r.reply.kind = "error"
    THEN Fallback(r, errorMessage(r.reply.error))
    ELSE Fallback(r, JsString("GEMINI_API_KEY not configured on server"))

FuzzyMatchIffAnyStep ==
    (fuzzy.called /\ fuzzy.op = "fuzzyMatch") =>
        LET AnyStep(a, b, d, maxLen, similarity) ==
                \/ a = b
                \/ includes(a, b) \/ includes(b, a)
                \/ d <= 2
                \/ (maxLen > 0 /\ 10 * d <= 3 * maxLen)
                \/ 10 * similarity[1] >= 7 * similarity[2]
            Trimmed(a, b) ==
                AnyStep(a, b, levenshteinDistance(a, b), Max(Len(a), Len(b)),
                        compareTwoStrings(a, b))
        IN fuzzy.ab <=> Trimmed(trim(toLowerCase(strA)), trim(toLowerCase(strB)))

\* C12 witness: two strings of length 10 at distance 3, neither equal nor one
\* inside the other, with a similarity of 12/18: only the ratio 3/10 <= 0.3
\* makes them match
RatioAloneMatches ==
    /\ fuzzy.called /\ fuzzy.op = "fuzzyMatch"
    /\ strA = Chars("abcdefghij") /\ strB = Chars("xyzdefghij")
    /\ levenshteinDistance(strA, strB) = 3
    /\ compareTwoStrings(strA, strB) = <<12, 18>>
    /\ fuzzy.ab


\* index of the first word that satisfies P, 0 when there is none
FirstWordWhere(allWords, P(_)) ==
    LET Earliest(I) == IF I = {} THEN 0 ELSE CHOOSE i \in I : \A x \in I : i <= x
    IN Earliest({i \in 1..Len(allWords) : P(allWords[i])})

\* a call with a single-token brand whose result uses no list rank: the prompt
\* is not recommendation-style, or no list item matches the brand
SingleTokenNoRank ==
    /\ mention.called
    /\ text # <<>> /\ brand # <<>>
    /\ LET NoRank(items, brandLower, brandTokens) ==
               /\ Len(brandTokens) = 1
               /\ \/ ~isRecommendationPrompt(prompt)
                  \/ \A k \in 1..Len(items) :
                         ~itemMatchesBrand(text, items, k, brandLower, brandTokens)
           WithBrand(brandLower) ==
               NoRank(uniqueListMatches(text), brandLower,
                      splitWhitespace(brandLower))
       IN WithBrand(trim(toLowerCase(brand)))

\* C13 as stated: whenever no list rank is used and the brand is a single
\* token, the position of a mentioned brand is the 1-based index of the first
\* word of the lowercased text that fuzzy-matches the brand, and does not
\* exceed the index of the first word that contains the brand verbatim.
PositionIsFirstFuzzyWord ==
    (SingleTokenNoRank /\ mention.value.mentioned) =>
        LET Agree(fuzzyIndex, verbatimIndex) ==
                /\ fuzzyIndex # 0
                /\ mention.value.position = fuzzyIndex
                /\ verbatimIndex # 0 => mention.value.position <= verbatimIndex
            WithBrand(allWords, brandLower) ==
                Agree(FirstWordWhere(allWords, LAMBDA w : fuzzyMatch(w, brandLower)),
                      FirstWordWhere(allWords, LAMBDA w : includes(w, brandLower)))
        IN WithBrand(matchWords(toLowerCase(text)), trim(toLowerCase(brand)))

\* C13, amended: when some word fuzzy-matches the brand the position is the
\* index of the first such word, at most the index of the first word that
\* contains the brand; when none does, the position is one more than the
\* number of words before the first occurrence of the brand in the lowercased
\* text, and without an occurrence the brand is not mentioned, position 0.
FirstFuzzyWordElseOccurrence ==
    SingleTokenNoRank =>
        LET Agree(textLower, brandLower, fuzzyIndex, verbatimIndex) ==
                IF fuzzyIndex # 0
                THEN /\ mention.value = [mentioned |-> TRUE, position |-> fuzzyIndex]
                     /\ verbatimIndex # 0 => fuzzyIndex <= verbatimIndex
                ELSE IF includes(textLower, brandLower)
                THEN mention.value =
                         [mentioned |-> TRUE,
                          position |-> WordsBefore(textLower,
                                           indexOf(textLower, brandLower)) + 1]
                ELSE mention.value = [mentioned |-> FALSE, position |-> 0]
            WithBrand(textLower, allWords, brandLower) ==
                Agree(textLower, brandLower,
                      FirstWordWhere(allWords, LAMBDA w : fuzzyMatch(w, brandLower)),
                      FirstWordWhere(allWords, LAMBDA w : includes(w, brandLower)))
            WithText(textLower) ==
                WithBrand(textLower, matchWords(textLower), trim(toLowerCase(brand)))
        IN WithText(toLowerCase(text))

\* C13 witness: no word of "use msvc++ today" fuzzy-matches "c++", the text
\* contains it after the words "use" and "msv", and the position is 3
OccurrenceInsideWord ==
    /\ SingleTokenNoRank
    /\ text = InsideWordText
    /\ brand = Chars("C++")
    /\ \A i \in 1..3 : ~fuzzyMatch(matchWords(toLowerCase(text))[i], Chars("c++"))
    /\ mention.value = [mentioned |-> TRUE, position |-> 3]

=============================================================================
